---- MODULE Spec2Model ----
(***************************************************************************)
(* Retrieval subsystem of the report pipeline: rag/embed.py (write path)   *)
(* and rag/retrieve.py (read path), run by the request threads of the      *)
(* threaded Flask host (app.py, app.run(threaded=True)).                   *)
(*                                                                         *)
(* Every request thread executes embed_texts or retrieve_context one       *)
(* Python statement at a time; the module globals _model, _index and       *)
(* _documents are shared and there is no lock anywhere in the code.        *)
(*                                                                         *)
(* The handlers of app.py (/upload, /chat, /agent-logs, /clear-logs) and   *)
(* the agent logger (agents/agent_logger.py) run on the same threads and   *)
(* reach embed_texts and retrieve_context through /upload and /chat.       *)
(***************************************************************************)
EXTENDS Integers, Sequences, FiniteSets, TLC

\* ------------------------------------------------------------------ bounds
Threads == {1, 2}            \* request threads of the threaded host
MaxCalls == 2                \* calls started in one run, all threads together
MaxK == 2                    \* largest k handed to retrieve_context
MaxLimit == 2                \* largest limit handed to get_agent_logs

\* ------------------------------------------------------- program constants
EMBEDDING_DIM == 384
None == 0                    \* Python None for the lazily built globals
NoContext == "No indexed report context available."
DefaultK == 2                \* retrieve_context(query, k=2)
DefaultLimit == 50           \* get_agent_logs(limit: int = 50)

Tags == {"AUTHORIZATION", "SETTLEMENT"}
Texts == {"declines", "delay"}
Queries == {"authorization declines", "settlement delay"}

\* the inputs embed_texts accepts: one string (Texts), or a list of strings:
\* the empty list, one text, two different texts, the same text twice
TextLists == {<<>>, <<"delay">>, <<"delay", "declines">>,
              <<"declines", "declines">>}

VARIABLES
    embed_model,      \* rag/embed.py    _model  (None or a model instance)
    retrieve_model,   \* rag/retrieve.py _model  (None or a model instance)
    modelsBuilt,      \* SentenceTransformer instances built, per module
    _index,           \* rag/embed.py _index (None or an index instance)
    indexes,          \* every IndexFlatL2 constructed: its stored vectors
    _documents,       \* rag/embed.py _documents
    pc,               \* position of each request thread
    loc,              \* local variables of each request thread
    calls,            \* calls and requests started so far
    budget,           \* calls and requests one run may start
    CACHE,            \* app.py CACHE: the summaries cached per report type
    _AGENT_LOGS,      \* agents/agent_logger.py _AGENT_LOGS
    req,              \* the request each thread is serving, and its response
    embedFailed,      \* uploads whose embed_texts call raised, per report type
    uploaded          \* uploads that answered 200, per report type

vars == <<embed_model, retrieve_model, modelsBuilt, _index, indexes,
          _documents, pc, loc, calls, budget, CACHE, _AGENT_LOGS, req,
          embedFailed, uploaded>>

\* what the retrieval code never touches
appVars == <<budget, CACHE, _AGENT_LOGS, req, embedFailed, uploaded>>

\* ---------------------------------------------------------- pure functions

\* the tag prefix without its separating blank
TagText_NoBlank(tag, t) == "[" \o tag \o "]" \o t

\* f"[{tag}] {t}"
TagText(tag, t) == "[" \o tag \o "] " \o t

\* if isinstance(texts, str): texts = [texts]
AsList(isStr, texts) == IF isStr THEN <<texts>> ELSE texts

\* [f"[{tag}] {t}" for t in texts]
TaggedTexts(texts, tag) == [i \in 1..Len(texts) |-> TagText(tag, texts[i])]

\* The embedding model is a deterministic map from a string to a vector of
\* EMBEDDING_DIM floats.  Two of the coordinates are kept; the tag decides
\* the first and the text the second, so that equal strings have equal
\* vectors and different strings can still be equally far from a query.
TagCoord(tag) == IF tag = "AUTHORIZATION" THEN 0 ELSE 4
TextCoord(t) == IF t = "declines" THEN 0 ELSE 4
EncodeOne(s) ==
    IF s = "authorization declines" THEN <<1, 1>>
    ELSE IF s = "settlement delay" THEN <<3, 3>>
    ELSE IF s = "AUTH_TRENDS: authorization declines" THEN <<1, 2>>
    ELSE IF s = "GENERAL: why" THEN <<2, 2>>
    ELSE LET p == CHOOSE q \in Tags \X Texts : TagText(q[1], q[2]) = s
         IN  <<TagCoord(p[1]), TextCoord(p[2])>>

\* model.encode(list) followed by np.array(...).astype("float32"): an array
\* of shape (n, width), or of shape (0,) for the empty list.
Encode(strs, width) ==
    [d    |-> IF Len(strs) = 0 THEN 0 ELSE width,
     rows |-> [i \in 1..Len(strs) |-> EncodeOne(strs[i])]]

\* The widths a loaded model can produce.  all-MiniLM-L6-v2 produces
\* EMBEDDING_DIM; any other width stands for an array index.add rejects.
ModelWidths == {EMBEDDING_DIM, 2 * EMBEDDING_DIM}

\* squared L2 distance, as IndexFlatL2 reports it
L2(u, v) == (u[1] - v[1]) * (u[1] - v[1]) + (u[2] - v[2]) * (u[2] - v[2])

\* index.ntotal
Ntotal(ix) == Len(indexes[ix])

\* ties go to the later position
TieBreak_Later(i, j) == i > j

\* Vector Store search, ties: insertion order, the lower position wins
TieBreak(i, j) == i < j

\* the comparison turned round: farthest first
Nearer_Farthest(vecs, q, i, j) ==
    \/ L2(vecs[i], q) > L2(vecs[j], q)
    \/ L2(vecs[i], q) = L2(vecs[j], q) /\ i < j

\* position i is nearer to q than position j (ties: the lower position)
Nearer(vecs, q, i, j) ==
    \/ L2(vecs[i], q) < L2(vecs[j], q)
    \/ L2(vecs[i], q) = L2(vecs[j], q) /\ TieBreak(i, j)

RECURSIVE NearestFrom(_, _, _, _)
NearestFrom(vecs, q, cand, k) ==
    IF k = 0 THEN <<>>
    ELSE IF cand = {} THEN <<-1>> \o NearestFrom(vecs, q, cand, k - 1)
    ELSE LET b == CHOOSE i \in cand :
                     \A j \in cand \ {i} : Nearer(vecs, q, i, j)
         IN  <<b - 1>> \o NearestFrom(vecs, q, cand \ {b}, k - 1)

\* index.search(query_embedding, k): the labels row, 0-based, nearest first,
\* padded with -1 when fewer than k vectors are stored
Search(vecs, q, k) == NearestFrom(vecs, q, 1..Len(vecs), k)

\* the loop without its lower bound: Python reads documents[-1] as the last
\* entry
RECURSIVE Collect_NoLowerBound(_, _)
Collect_NoLowerBound(indices, documents) ==
    IF indices = <<>> THEN <<>>
    ELSE LET idx == Head(indices)
             rest == Collect_NoLowerBound(Tail(indices), documents)
         IN  IF idx < Len(documents) /\ Len(documents) > 0
             THEN <<documents[IF idx < 0 THEN Len(documents) + idx + 1
                                         ELSE idx + 1]>> \o rest
             ELSE rest

\* for idx in indices[0]: if 0 <= idx < len(documents): results.append(...)
RECURSIVE Collect(_, _)
Collect(indices, documents) ==
    IF indices = <<>> THEN <<>>
    ELSE LET idx == Head(indices)
             rest == Collect(Tail(indices), documents)
         IN  IF 0 <= idx /\ idx < Len(documents)
             THEN <<documents[idx + 1]>> \o rest
             ELSE rest

\* "\n".join(results)
RECURSIVE Join(_)
Join(results) ==
    IF results = <<>> THEN ""
    ELSE IF Len(results) = 1 THEN results[1]
    ELSE results[1] \o "\n" \o Join(Tail(results))

\* ------------------------------------------------------------------- state

\* ------------------------------------------------- app.py: pure functions

ReportTypes == {"authorization", "settlement"}

\* a form field or a file part the request does not carry
Missing == "<missing>"

\* what a client can send to /upload: the 'type' field and the file's name
FormTypes == ReportTypes \cup {"refund", Missing}
FileNames == {"auth.csv", "report.txt", "", Missing}

\* what a client can send to /chat as the query: payload.get("query", "")
ChatQueries == {"authorization declines", "why", ""}

\* file.filename.lower().endswith('.csv'), on FileNames
IsCsv(filename) == filename \in {"auth.csv"}

\* report_type.upper(), on ReportTypes
Upper(report_type) ==
    IF report_type = "authorization" THEN "AUTHORIZATION" ELSE "SETTLEMENT"

\* the checks of /upload in the order the code makes them: the error of the
\* first check that fails, "" when all pass
UploadError(type, filename) ==
    IF type = Missing THEN "Report type is required"
    ELSE IF type \notin ReportTypes THEN "Invalid report type"
    ELSE IF filename = Missing THEN "No file uploaded"
    ELSE IF filename = "" THEN "No file selected"
    ELSE IF ~IsCsv(filename) THEN "Only CSV files are allowed"
    ELSE ""

\* infer_report_type(path, df) for the path /upload saves the file under,
\* .../data/<report_type>/<name>_<timestamp>.csv: "auth" in path_lower is
\* tested first (BASE_DIR is taken to hold neither "auth" nor "settle")
infer_report_type(report_type, filename) ==
    IF report_type = "authorization" \/ filename = "auth.csv"
    THEN "authorization" ELSE "settlement"

\* a metric key_metrics does not hold
NoMetric == -1

\* The mean of a column, in hundredths.  A file is named by its text summary:
\* "declines" has the one numeric column declined_txns, "delay" the one
\* numeric column delay_hours.
ColumnMean == 1200
DefaultDeclines == 500       \* "mean": 5.0
DefaultDelay == 180          \* "mean": 1.8

\* extract_key_metrics(df, report_type): the means of the numeric columns and
\* the standard name of the inferred report type, defaulted when no column
\* matches; only the two names /chart-data looks for are kept
extract_key_metrics(content, inferred) ==
    [declined_txns |->
         IF content = "declines" THEN ColumnMean
         ELSE IF inferred = "authorization" THEN DefaultDeclines
         ELSE NoMetric,
     delay_hours |->
         IF content = "delay" THEN ColumnMean
         ELSE IF inferred = "settlement" THEN DefaultDelay
         ELSE NoMetric]

\* summary = understand_report(save_path)
understand_report(report_type, filename, content) ==
    [text_summary |-> content,
     key_metrics |-> extract_key_metrics(
                         content, infer_report_type(report_type, filename))]

\* the sample data /chart-data falls back to, in hundredths
SampleDeclines == <<1000, 1200, 1500, 1100, 1300>>
SampleDelays == <<150, 180, 200, 160, 190>>

\* the loop of /chart-data over the cached summaries of one type: the metric
\* of each summary that holds one, in cache order
RECURSIVE DataPoints(_, _)
DataPoints(summaries, field) ==
    IF summaries = <<>> THEN <<>>
    ELSE LET v == IF field = "declined_txns"
                  THEN Head(summaries).key_metrics.declined_txns
                  ELSE Head(summaries).key_metrics.delay_hours
         IN  (IF v # NoMetric THEN <<v>> ELSE <<>>)
             \o DataPoints(Tail(summaries), field)

\* the keywords of classify_intent that occur in query.lower(), on ChatQueries
\* and AgentQueries
Keywords(query) ==
    IF query = "authorization declines" THEN {"authorization", "auth"}
    ELSE IF query = "settlement delay" THEN {"settlement"}
    ELSE IF query = "network performance" THEN {"performance", "network"}
    ELSE IF query = "recommend action" THEN {"recommend", "action"}
    ELSE {}

classify_intent(query) ==
    LET q == Keywords(query)
    IN  IF q \cap {"authorization", "auth"} # {} THEN "AUTH_TRENDS"
        ELSE IF q \cap {"settlement", "clearing"} # {}
             THEN "SETTLEMENT_ANALYSIS"
        ELSE IF q \cap {"performance", "network"} # {}
             THEN "PERFORMANCE_REPORT"
        ELSE IF q \cap {"recommend", "optimiz", "action"} # {}
             THEN "OPTIMIZATION_RECOMMENDATION"
        ELSE "GENERAL"

\* f"{intent}: {query}"
IntentQuery(intent, query) == intent \o ": " \o query

\* the entry log_agent_step appends: its agent and its output (the timestamp,
\* the input and the metadata are left out)
LogEntry(agent_name, output_data) ==
    [agent |-> agent_name, output |-> output_data]

\* s[start:] as Python evaluates it: a negative start counts from the end and
\* stops at the first entry, a start past the end gives the empty list
SliceFrom(s, start) ==
    LET n == Len(s)
        from == IF start < 0
                THEN (IF start + n < 0 THEN 0 ELSE start + n)
                ELSE (IF start > n THEN n ELSE start)
    IN  SubSeq(s, from + 1, n)

\* _AGENT_LOGS[-limit:]
RecentLogs(logs, limit) == SliceFrom(logs, 0 - limit)

\* --------------------------------------------------------- the state space

\* -------------------------------------- the agents behind the retrieval

\* A text these agents read is kept as what they read of it: len(text), and
\* the words of Vocabulary that occur in text.lower()
Vocabulary ==
    {"issuer", "clearing", "batch", "threshold", "regional", "velocity",
     "authorization", "decline", "settlement", "delay", "network", "fraud",
     "risk"}

Text(len, words) == [len |-> len, words |-> words]

\* "", and an answer that is missing
NoText == Text(0, {})

\* the contexts retrieve_context hands to the agents
Contexts ==
    {NoContext, "[AUTHORIZATION] declines", "[SETTLEMENT] delay",
     "[AUTHORIZATION] declines\n[SETTLEMENT] delay"}

\* word in context.lower(), on Contexts
Mentions(context, word) ==
    \/ word = "decline"
       /\ context \in {"[AUTHORIZATION] declines",
                       "[AUTHORIZATION] declines\n[SETTLEMENT] delay"}
    \/ word = "delay"
       /\ context \in {"[SETTLEMENT] delay",
                       "[AUTHORIZATION] declines\n[SETTLEMENT] delay"}

\* the sentence fallback_reasoning returns, by its length and its words
fallback_reasoning(intent, context) ==
    IF intent = "AUTH_TRENDS"
    THEN IF Mentions(context, "decline")
         THEN Text(140, {"authorization", "issuer", "risk", "decline",
                         "network"})
         ELSE Text(94, {"authorization", "issuer"})
    ELSE IF intent = "SETTLEMENT_ANALYSIS"
    THEN IF Mentions(context, "delay")
         THEN Text(135, {"settlement", "delay", "authorization", "clearing",
                         "regional"})
         ELSE Text(105, {"settlement", "threshold"})
    ELSE IF intent = "PERFORMANCE_REPORT"
    THEN Text(135, {"network", "authorization", "settlement"})
    ELSE IF intent = "OPTIMIZATION_RECOMMENDATION"
    THEN Text(135, {"issuer", "regional", "settlement", "batch"})
    ELSE Text(113, {"network", "authorization", "settlement"})

\* what the language model may answer: too short, of moderate length and
\* long, with none, some and many of the words the agents look for
Answers ==
    {Text(len, words) :
        len \in {80, 150, 250},
        words \in {{}, {"fraud"}, {"issuer", "clearing"},
                   {"issuer", "clearing", "batch", "settlement"},
                   {"velocity", "threshold", "batch", "fraud", "risk"}}}

\* explain_root_cause(query, context, intent); answer is response.output_text,
\* NoText when there is no API key, the call raises or the answer is empty
explain_root_cause(query, context, intent, answer) ==
    IF answer = NoText THEN fallback_reasoning(intent, context) ELSE answer

\* a call that was not made leaves counterfactual = None
NoCounterfactual == "None"

\* simulate_counterfactual(intent, root_cause)["confidence"]
simulate_counterfactual(intent, root_cause) ==
    LET rc == root_cause.words
    IN  IF rc \cap {"authorization", "decline"} # {} THEN "Medium"
        ELSE IF rc \cap {"settlement", "delay"} # {} THEN "Medium-High"
        ELSE IF intent \in {"PERFORMANCE_REPORT",
                            "OPTIMIZATION_RECOMMENDATION"}
             THEN "Medium"
        ELSE IF rc \cap {"network", "issuer"} # {} THEN "Medium"
        ELSE IF rc \cap {"fraud", "risk"} # {} THEN "High"
        ELSE "Low"

\* historical_accuracy = None
NoAccuracy == -1

\* INTENT_CONFIDENCE.get(intent, 0.15), in hundredths
IntentConfidence(intent) ==
    IF intent \in {"AUTH_TRENDS", "SETTLEMENT_ANALYSIS"} THEN 30
    ELSE IF intent = "PERFORMANCE_REPORT" THEN 25
    ELSE IF intent = "OPTIMIZATION_RECOMMENDATION" THEN 20
    ELSE IF intent = "FRAUD_DETECTION" THEN 28
    ELSE IF intent = "NETWORK_HEALTH" THEN 27
    ELSE 15

\* the flags of r that are raised, in the order given
RECURSIVE Raised(_)
Raised(r) ==
    IF r = <<>> THEN <<>>
    ELSE IF Head(r)[1] THEN <<Head(r)[2]>> \o Raised(Tail(r))
    ELSE Raised(Tail(r))

\* assess_decision_confidence(...): anomalies is the list of the anomalies'
\* severities, <<>> for None; counterfactual is the confidence of the
\* simulation or NoCounterfactual; scores and accuracies are in hundredths
assess_decision_confidence(intent, root_cause, anomalies, counterfactual, historical_accuracy) ==
    LET intent_score == IntentConfidence(intent)
        high_severity_count ==
            Cardinality({i \in 1..Len(anomalies) : anomalies[i] = "HIGH"})
        keyword_matches ==
            Cardinality(root_cause.words
                        \cap {"issuer", "clearing", "batch", "threshold",
                              "regional", "velocity"})
        rc_length == root_cause.len
        anomaly_score == IF Len(anomalies) >= 3 THEN 25
                         ELSE IF Len(anomalies) >= 1 THEN 18 ELSE 8
        severity_score == IF high_severity_count > 0 THEN 5 ELSE 0
        depth_score == IF rc_length > 200 /\ keyword_matches >= 3 THEN 20
                       ELSE IF rc_length > 100 /\ keyword_matches >= 2
                            THEN 15
                       ELSE 8
        cf_score == IF counterfactual # NoCounterfactual
                    THEN IF counterfactual \in {"High", "Medium-High"}
                         THEN 15
                         ELSE IF counterfactual = "Medium" THEN 12 ELSE 8
                    ELSE 5
        history_score == IF historical_accuracy # NoAccuracy
                         THEN IF historical_accuracy >= 85 THEN 10
                              ELSE IF historical_accuracy >= 70 THEN 7 ELSE 3
                         ELSE 0
        sum == intent_score + anomaly_score + severity_score + depth_score
               + cf_score + history_score
        score == IF sum <= 100 THEN sum ELSE 100
        risk_flags ==
            Raised(<<
                <<intent_score < 20, "Unfamiliar intent pattern">>,
                <<Len(anomalies) < 1, "Limited anomaly evidence">>,
                <<depth_score = 8, "Shallow causal reasoning">>,
                <<cf_score = 8, "Weak counterfactual support">>,
                <<cf_score = 5, "Missing what-if analysis">>,
                <<history_score = 3, "Low past prediction accuracy">> >>)
    IN  [confidence_score |-> score,
         confidence_level |->
             IF score >= 80 THEN "HIGH"
             ELSE IF score >= 65 THEN "MEDIUM-HIGH"
             ELSE IF score >= 50 THEN "MEDIUM"
             ELSE IF score >= 35 THEN "MEDIUM-LOW"
             ELSE "LOW",
         risk_level |->
             IF Len(risk_flags) >= 3 THEN "HIGH"
             ELSE IF Len(risk_flags) >= 2 THEN "MEDIUM"
             ELSE IF Len(risk_flags) >= 1 THEN "LOW"
             ELSE "MINIMAL",
         risk_flags |-> risk_flags]

\* no assessment made yet
NoConfidence ==
    [confidence_score |-> -1, confidence_level |-> "", risk_level |-> "",
     risk_flags |-> <<>>]

\* a request and its response.  id numbers the requests in the order they
\* arrive.  before is the number of uploads of its type that had answered 200
\* when an upload arrived, appended the number of summaries it has added to
\* CACHE, per type.  cached is the number of summaries CACHE held of each type
\* when a /chart-data request arrived.  steps lists the agents this request
\* has logged, embedded tells how its embed_texts call ended, seen is
\* _AGENT_LOGS as get_agent_logs found it and logs is what it returned.
\* explanation, counterfactual and confidence are what the agents behind the
\* retrieval returned
NoRequest ==
    [route |-> "none", report_type |-> "", summary |-> "", query |-> "",
     show_counterfactual |-> FALSE, intent |-> "", context |-> "",
     status |-> 0, error |-> "", cached_count |-> -1, limit |-> -1,
     logs |-> <<>>, seen |-> <<>>, steps |-> <<>>, embedded |-> "none",
     filename |-> "", key_metrics |-> <<>>, auth_declines |-> <<>>,
     settlement_delays |-> <<>>, cached |-> <<>>, before |-> 0, id |-> 0,
     appended |-> [authorization |-> 0, settlement |-> 0],
     explanation |-> NoText, counterfactual |-> NoCounterfactual,
     confidence |-> NoConfidence]

\* locals of a request thread; encodes, added, extended, searched, entry and
\* batch count what the running call has done: model.encode calls made,
\* vectors it added, texts it appended, vectors its search ran over, the size
\* of the Vector Store when it was called, and the texts it was handed; prev
\* holds what this thread's call just before returned, when that was a
\* retrieve_context call with the same query and k
NoLocals ==
    [op |-> "none", texts |-> <<>>, tag |-> "", tagged_texts |-> <<>>,
     query |-> "", k |-> 0, index |-> None, ntotal |-> -1,
     embeddings |-> [d |-> 0, rows |-> <<>>], indices |-> <<>>,
     searched |-> 0, ret |-> "", encodes |-> 0, added |-> 0, extended |-> 0,
     entry |-> 0, batch |-> 0, prev |-> <<>>]

Init ==
    /\ embed_model = None
    /\ retrieve_model = None
    /\ modelsBuilt = [embed |-> 0, retrieve |-> 0]
    /\ _index = None
    /\ indexes = <<>>
    /\ _documents = <<>>
    /\ pc = [t \in Threads |-> "idle"]
    /\ loc = [t \in Threads |-> NoLocals]
    /\ calls = 0
    /\ budget = MaxCalls
    /\ CACHE = [authorization |-> <<>>, settlement |-> <<>>]
    /\ _AGENT_LOGS = <<>>
    /\ req = [t \in Threads |-> NoRequest]
    /\ embedFailed = [authorization |-> 0, settlement |-> 0]
    /\ uploaded = [authorization |-> 0, settlement |-> 0]

Returned(t) == pc[t] \in {"idle", "returned", "raised"}

\* the vectors of the Vector Store: those of the index _index names
StoreVectors == IF _index = None THEN <<>> ELSE indexes[_index]

Goto(t, label) == pc' = [pc EXCEPT ![t] = label]
Set(t, r) == loc' = [loc EXCEPT ![t] = r]

\* the call is over: its frame r is dropped, what it did and gave back stays
Leave(t, label, r) ==
    /\ Goto(t, label)
    /\ Set(t, [NoLocals EXCEPT !.op = r.op, !.ret = r.ret,
                               !.ntotal = r.ntotal,
                               !.encodes = r.encodes,
                               !.added = r.added,
                               !.extended = r.extended,
                               !.entry = r.entry,
                               !.batch = r.batch,
                               !.query = r.query,
                               !.k = r.k,
                               !.prev = r.prev])

\* ------------------------------------------------------------ lazy loaders

\* _load_index: if _index is None
IndexCheck(t, new, ret) ==
    /\ Goto(t, IF _index = None THEN new ELSE ret)
    /\ UNCHANGED <<embed_model, retrieve_model, modelsBuilt, _index, indexes,
                   _documents, loc, calls, appVars>>

\* _load_index: _index = faiss.IndexFlatL2(EMBEDDING_DIM)
IndexNew(t, ret) ==
    /\ indexes' = Append(indexes, <<>>)
    /\ _index' = Len(indexes) + 1
    /\ Goto(t, ret)
    /\ UNCHANGED <<embed_model, retrieve_model, modelsBuilt, _documents, loc,
                   calls, appVars>>

\* _load_index: return _index
IndexRet(t, next) ==
    /\ Set(t, [loc[t] EXCEPT !.index = _index])
    /\ Goto(t, next)
    /\ UNCHANGED <<embed_model, retrieve_model, modelsBuilt, _index, indexes,
                   _documents, calls, appVars>>

\* ------------------------------------------------- embed_texts(texts, tag)

EmbedEnter(t, texts, tag) ==
    Set(t, [NoLocals EXCEPT !.op = "embed", !.texts = texts, !.tag = tag,
                            !.tagged_texts = TaggedTexts(texts, tag),
                            !.entry = Len(StoreVectors),
                            !.batch = Len(texts)])

\* the call, with lines 44-48: the list and its tagged copy
EmbedCall(t) ==
    /\ Returned(t)
    /\ calls < budget
    /\ \E tag \in Tags :
          \/ \E s \in Texts : EmbedEnter(t, AsList(TRUE, s), tag)
          \/ \E l \in TextLists : EmbedEnter(t, AsList(FALSE, l), tag)
    /\ Goto(t, "e_model_chk")
    /\ calls' = calls + 1
    /\ UNCHANGED <<embed_model, retrieve_model, modelsBuilt, _index, indexes,
                   _documents, appVars>>

\* embed._load_model: if _model is None (else: return _model)
EmbedModelCheck(t) ==
    /\ pc[t] = "e_model_chk"
    /\ Goto(t, IF embed_model = None THEN "e_model_new" ELSE "e_index_chk")
    /\ UNCHANGED <<embed_model, retrieve_model, modelsBuilt, _index, indexes,
                   _documents, loc, calls, appVars>>

\* embed._load_model: _model = SentenceTransformer(MODEL_NAME); return _model
EmbedModelNew(t) ==
    /\ pc[t] = "e_model_new"
    /\ modelsBuilt' = [modelsBuilt EXCEPT !.embed = @ + 1]
    /\ embed_model' = modelsBuilt.embed + 1
    /\ Goto(t, "e_index_chk")
    /\ UNCHANGED <<retrieve_model, _index, indexes, _documents, loc, calls,
                   appVars>>

EmbedIndexCheck(t) ==
    pc[t] = "e_index_chk" /\ IndexCheck(t, "e_index_new", "e_index_ret")

EmbedIndexNew(t) ==
    pc[t] = "e_index_new" /\ IndexNew(t, "e_index_ret")

EmbedIndexRet(t) ==
    pc[t] = "e_index_ret" /\ IndexRet(t, "e_encode")

\* embeddings = model.encode(tagged_texts); np.array(...).astype("float32")
EmbedEncode(t) ==
    /\ pc[t] = "e_encode"
    /\ \E width \in ModelWidths :
          Set(t, [loc[t] EXCEPT
                     !.embeddings = Encode(loc[t].tagged_texts, width),
                     !.encodes = @ + 1])
    /\ Goto(t, "e_add")
    /\ UNCHANGED <<embed_model, retrieve_model, modelsBuilt, _index, indexes,
                   _documents, calls, appVars>>

\* an embed_texts that encodes and adds text by text: the failure comes
\* after the first vector is stored
EmbedEncodeFails_AfterFirst(t) ==
    /\ pc[t] = "e_encode"
    /\ indexes' = [indexes EXCEPT ![loc[t].index] =
                       @ \o SubSeq(Encode(loc[t].tagged_texts,
                                          EMBEDDING_DIM).rows, 1, 1)]
    /\ Leave(t, "raised",
             [loc[t] EXCEPT !.ret = "EncodeError", !.encodes = @ + 1,
                            !.added = Len(indexes'[loc[t].index])
                                      - Len(indexes[loc[t].index])])
    /\ UNCHANGED <<embed_model, retrieve_model, modelsBuilt, _index,
                   _documents, calls, appVars>>

\* model.encode raises: the exception leaves embed_texts
EmbedEncodeFails(t) ==
    /\ pc[t] = "e_encode"
    /\ Leave(t, "raised", [loc[t] EXCEPT !.ret = "EncodeError",
                                          !.encodes = @ + 1])
    /\ UNCHANGED <<embed_model, retrieve_model, modelsBuilt, _index, indexes,
                   _documents, calls, appVars>>

\* what index.add(x) stores: all rows of x, after the stored ones
AddRows(stored, x) == stored \o x.rows

\* index.add(embeddings), accepted: the array is (n, EMBEDDING_DIM)
EmbedAdd(t) ==
    /\ pc[t] = "e_add"
    /\ loc[t].embeddings.d = EMBEDDING_DIM
    /\ indexes' = [indexes EXCEPT ![loc[t].index] =
                       AddRows(@, loc[t].embeddings)]
    /\ Set(t, [loc[t] EXCEPT !.added =
                  Len(indexes'[loc[t].index]) - Len(indexes[loc[t].index])])
    /\ Goto(t, "e_extend")
    /\ UNCHANGED <<embed_model, retrieve_model, modelsBuilt, _index,
                   _documents, calls, appVars>>

\* an embed_texts that extends the registry even when index.add raises
EmbedAddRejects_StillExtends(t) ==
    /\ pc[t] = "e_add"
    /\ loc[t].embeddings.d # EMBEDDING_DIM
    /\ _documents' = _documents \o loc[t].tagged_texts
    /\ Leave(t, "raised",
             [loc[t] EXCEPT !.ret = "AddError",
                            !.extended = Len(_documents') - Len(_documents)])
    /\ UNCHANGED <<embed_model, retrieve_model, modelsBuilt, _index, indexes,
                   calls, appVars>>

\* index.add(embeddings), rejected: the array is not (n, EMBEDDING_DIM)
EmbedAddRejects(t) ==
    /\ pc[t] = "e_add"
    /\ loc[t].embeddings.d # EMBEDDING_DIM
    /\ Leave(t, "raised", [loc[t] EXCEPT !.ret = "AddError"])
    /\ UNCHANGED <<embed_model, retrieve_model, modelsBuilt, _index, indexes,
                   _documents, calls, appVars>>

\* _documents.extend(tagged_texts); return embeddings
EmbedExtend(t) ==
    /\ pc[t] = "e_extend"
    /\ _documents' = _documents \o loc[t].tagged_texts
    /\ Leave(t, "returned",
             [loc[t] EXCEPT !.ret = "embeddings",
                            !.extended = Len(_documents') - Len(_documents)])
    /\ UNCHANGED <<embed_model, retrieve_model, modelsBuilt, _index, indexes,
                   calls, appVars>>

\* the statements of a call of embed_texts that is under way
EmbedSteps(t) ==
    \/ EmbedModelCheck(t) \/ EmbedModelNew(t)
    \/ EmbedIndexCheck(t) \/ EmbedIndexNew(t) \/ EmbedIndexRet(t)
    \/ EmbedEncode(t) \/ EmbedEncodeFails(t)
    \/ EmbedAdd(t) \/ EmbedAddRejects(t) \/ EmbedExtend(t)

Embed(t) == EmbedCall(t) \/ EmbedSteps(t)

\* ---------------------------------------------- retrieve_context(query, k)

RetrieveCall(t) ==
    /\ Returned(t)
    /\ calls < budget
    /\ \E query \in Queries, k \in 1..MaxK :
          Set(t, [NoLocals EXCEPT
                     !.op = "retrieve", !.query = query, !.k = k,
                     !.entry = Len(StoreVectors),
                     !.prev = IF /\ pc[t] = "returned"
                                 /\ loc[t].op = "retrieve"
                                 /\ loc[t].query = query /\ loc[t].k = k
                              THEN <<loc[t].ret>> ELSE <<>>])
    /\ Goto(t, "r_index_chk")
    /\ calls' = calls + 1
    /\ UNCHANGED <<embed_model, retrieve_model, modelsBuilt, _index, indexes,
                   _documents, appVars>>

\* index = get_faiss_index()
RetrieveIndexCheck(t) ==
    pc[t] = "r_index_chk" /\ IndexCheck(t, "r_index_new", "r_index_ret")

RetrieveIndexNew(t) ==
    pc[t] = "r_index_new" /\ IndexNew(t, "r_index_ret")

RetrieveIndexRet(t) ==
    pc[t] = "r_index_ret" /\ IndexRet(t, "r_ntotal")

\* retrieve_context without the empty-store guard
RetrieveNtotal_NoGuard(t) ==
    /\ pc[t] = "r_ntotal"
    /\ Goto(t, "r_model_chk")
    /\ Set(t, [loc[t] EXCEPT !.ntotal = Ntotal(loc[t].index)])
    /\ UNCHANGED <<embed_model, retrieve_model, modelsBuilt, _index, indexes,
                   _documents, calls, appVars>>

\* if index.ntotal == 0: return "No indexed report context available."
RetrieveNtotal(t) ==
    /\ pc[t] = "r_ntotal"
    /\ IF Ntotal(loc[t].index) = 0
       THEN Leave(t, "returned",
                  [loc[t] EXCEPT !.ntotal = 0, !.ret = NoContext])
       ELSE /\ Goto(t, "r_model_chk")
            /\ Set(t, [loc[t] EXCEPT !.ntotal = Ntotal(loc[t].index)])
    /\ UNCHANGED <<embed_model, retrieve_model, modelsBuilt, _index, indexes,
                   _documents, calls, appVars>>

\* retrieve._load_model: if _model is None (else: return _model)
RetrieveModelCheck(t) ==
    /\ pc[t] = "r_model_chk"
    /\ Goto(t, IF retrieve_model = None THEN "r_model_new" ELSE "r_encode")
    /\ UNCHANGED <<embed_model, retrieve_model, modelsBuilt, _index, indexes,
                   _documents, loc, calls, appVars>>

\* retrieve._load_model: _model = SentenceTransformer(MODEL_NAME)
RetrieveModelNew(t) ==
    /\ pc[t] = "r_model_new"
    /\ modelsBuilt' = [modelsBuilt EXCEPT !.retrieve = @ + 1]
    /\ retrieve_model' = modelsBuilt.retrieve + 1
    /\ Goto(t, "r_encode")
    /\ UNCHANGED <<embed_model, _index, indexes, _documents, loc, calls,
                   appVars>>

\* retrieve_context that embeds the query with embed_texts: the query vector
\* and the query text are stored
RetrieveEncode_IndexesQuery(t) ==
    /\ pc[t] = "r_encode"
    /\ Set(t, [loc[t] EXCEPT
                  !.embeddings = Encode(<<loc[t].query>>, EMBEDDING_DIM),
                  !.encodes = @ + 1])
    /\ indexes' = [indexes EXCEPT ![loc[t].index] =
                       @ \o Encode(<<loc[t].query>>, EMBEDDING_DIM).rows]
    /\ _documents' = Append(_documents, loc[t].query)
    /\ Goto(t, "r_search")
    /\ UNCHANGED <<embed_model, retrieve_model, modelsBuilt, _index, calls,
                   appVars>>

\* query_embedding = model.encode([query]); np.array(...).astype("float32")
RetrieveEncode(t) ==
    /\ pc[t] = "r_encode"
    /\ \E width \in ModelWidths :
          Set(t, [loc[t] EXCEPT
                     !.embeddings = Encode(<<loc[t].query>>, width),
                     !.encodes = @ + 1])
    /\ Goto(t, "r_search")
    /\ UNCHANGED <<embed_model, retrieve_model, modelsBuilt, _index, indexes,
                   _documents, calls, appVars>>

\* model.encode raises: the exception leaves retrieve_context
RetrieveEncodeFails(t) ==
    /\ pc[t] = "r_encode"
    /\ Leave(t, "raised", [loc[t] EXCEPT !.ret = "EncodeError",
                                          !.encodes = @ + 1])
    /\ UNCHANGED <<embed_model, retrieve_model, modelsBuilt, _index, indexes,
                   _documents, calls, appVars>>

\* index.search(query_embedding, k), rejected: the query is not
\* (1, EMBEDDING_DIM); the exception leaves retrieve_context
RetrieveSearchRejects(t) ==
    /\ pc[t] = "r_search"
    /\ loc[t].embeddings.d # EMBEDDING_DIM
    /\ Leave(t, "raised", [loc[t] EXCEPT !.ret = "SearchError"])
    /\ UNCHANGED <<embed_model, retrieve_model, modelsBuilt, _index, indexes,
                   _documents, calls, appVars>>

\* _, indices = index.search(query_embedding, k)
RetrieveSearch(t) ==
    /\ pc[t] = "r_search"
    /\ loc[t].embeddings.d = EMBEDDING_DIM
    /\ Set(t, [loc[t] EXCEPT
                  !.indices = Search(indexes[loc[t].index],
                                     loc[t].embeddings.rows[1], loc[t].k),
                  !.searched = Ntotal(loc[t].index)])
    /\ Goto(t, "r_collect")
    /\ UNCHANGED <<embed_model, retrieve_model, modelsBuilt, _index, indexes,
                   _documents, calls, appVars>>

\* the loop over indices[0] and return "\n".join(results)
RetrieveCollect(t) ==
    /\ pc[t] = "r_collect"
    /\ Leave(t, "returned",
             [loc[t] EXCEPT !.ret = Join(Collect(loc[t].indices, _documents))])
    /\ UNCHANGED <<embed_model, retrieve_model, modelsBuilt, _index, indexes,
                   _documents, calls, appVars>>

\* the statements of a call of retrieve_context that is under way
RetrieveSteps(t) ==
    \/ RetrieveIndexCheck(t) \/ RetrieveIndexNew(t)
    \/ RetrieveIndexRet(t) \/ RetrieveNtotal(t) \/ RetrieveModelCheck(t)
    \/ RetrieveModelNew(t) \/ RetrieveEncode(t) \/ RetrieveEncodeFails(t)
    \/ RetrieveSearchRejects(t) \/ RetrieveSearch(t) \/ RetrieveCollect(t)

Retrieve(t) == RetrieveCall(t) \/ RetrieveSteps(t)

\* ------------------------------------------------------- app.py: requests

storeVars == <<embed_model, retrieve_model, modelsBuilt, _index, indexes,
               _documents>>

\* the thread is free to take a request
Idle(t) == pc[t] \in {"idle", "responded"}

\* a request arrives: r is its frame
Accept(t, r, label) ==
    /\ Idle(t)
    /\ calls < budget
    /\ calls' = calls + 1
    /\ req' = [req EXCEPT ![t] = [r EXCEPT !.id = calls']]
    /\ Set(t, NoLocals)
    /\ Goto(t, label)

\* return jsonify(...), status
Respond(t, r, status) ==
    /\ req' = [req EXCEPT ![t] = [r EXCEPT !.status = status]]
    /\ Goto(t, "responded")

\* log_agent_step(agent_name, ..., output_data): _AGENT_LOGS.append(log_entry)
log_agent_step(agent_name, output_data) ==
    _AGENT_LOGS' = Append(_AGENT_LOGS, LogEntry(agent_name, output_data))

\* the request's frame after it has logged a step
Stepped(r, agent_name) == [r EXCEPT !.steps = Append(@, agent_name)]

\* ------------------------------------------------------------ POST /upload

\* one of the checks of lines 77-108 fails: 400
UploadRejected(t) ==
    /\ \E type \in FormTypes, filename \in FileNames :
          /\ UploadError(type, filename) # ""
          /\ Accept(t, [NoRequest EXCEPT
                           !.route = "upload", !.status = 400,
                           !.error = UploadError(type, filename)],
                    "responded")
    /\ UNCHANGED <<storeVars, budget, uploaded, embedFailed, CACHE, _AGENT_LOGS>>

\* the checks pass and file.save(save_path) stores the file
UploadCall(t) ==
    /\ \E type \in FormTypes, filename \in FileNames :
          /\ UploadError(type, filename) = ""
          /\ Accept(t, [NoRequest EXCEPT
                           !.route = "upload", !.report_type = type,
                           !.filename = filename,
                           !.before = uploaded[type]],
                    "u_understand")
    /\ UNCHANGED <<storeVars, budget, uploaded, embedFailed, CACHE, _AGENT_LOGS>>

\* the checks pass and os.makedirs or file.save raises: the outer handler, 500
UploadSaveFails(t) ==
    /\ \E type \in FormTypes, filename \in FileNames :
          /\ UploadError(type, filename) = ""
          /\ Accept(t, [NoRequest EXCEPT
                           !.route = "upload", !.report_type = type,
                           !.status = 500, !.error = "Upload failed"],
                    "responded")
    /\ UNCHANGED <<storeVars, budget, uploaded, embedFailed, CACHE, _AGENT_LOGS>>

\* summary = understand_report(save_path); log_agent_step(...)
UploadUnderstand(t) ==
    /\ pc[t] = "u_understand"
    /\ \E content \in Texts :
          LET summary == understand_report(req[t].report_type,
                                           req[t].filename, content)
          IN  req' = [req EXCEPT ![t] =
                         Stepped([req[t] EXCEPT
                                     !.summary = summary.text_summary,
                                     !.key_metrics = summary.key_metrics],
                                 "ReportUnderstandingAgent")]
    /\ log_agent_step("ReportUnderstandingAgent", "summary")
    /\ Goto(t, "u_detect")
    /\ UNCHANGED <<storeVars, loc, calls, budget, uploaded, embedFailed, CACHE>>

\* an upload that caches a summary before it answers 500
UploadUnderstandFails_Caches(t) ==
    /\ pc[t] = "u_understand"
    /\ CACHE' = [CACHE EXCEPT ![req[t].report_type] =
                    Append(@, [text_summary |-> "",
                               key_metrics |-> extract_key_metrics("", "")])]
    /\ Respond(t, [req[t] EXCEPT !.error = "Failed to understand report"],
               500)
    /\ UNCHANGED <<storeVars, loc, calls, budget, uploaded, embedFailed, _AGENT_LOGS>>

\* understand_report raises: 500
UploadUnderstandFails(t) ==
    /\ pc[t] = "u_understand"
    /\ Respond(t, [req[t] EXCEPT !.error = "Failed to understand report"],
               500)
    /\ UNCHANGED <<storeVars, loc, calls, budget, uploaded, embedFailed, CACHE,
                   _AGENT_LOGS>>

\* anomalies = detect_anomalies(summary); log_agent_step(...)
UploadDetect(t) ==
    /\ pc[t] = "u_detect"
    /\ req' = [req EXCEPT ![t] = Stepped(req[t], "AnomalyDetectionAgent")]
    /\ log_agent_step("AnomalyDetectionAgent", "anomalies")
    /\ Goto(t, "u_cache")
    /\ UNCHANGED <<storeVars, loc, calls, budget, uploaded, embedFailed, CACHE>>

\* detect_anomalies raises: anomalies = [], nothing is logged
UploadDetectFails(t) ==
    /\ pc[t] = "u_detect"
    /\ Goto(t, "u_cache")
    /\ UNCHANGED <<storeVars, loc, calls, appVars>>

\* an upload that goes on to embed without caching its summary
UploadCache_NoAppend(t) ==
    /\ pc[t] = "u_cache"
    /\ Goto(t, "u_embed")
    /\ UNCHANGED <<storeVars, loc, calls, appVars>>

\* CACHE[report_type].append(summary)
UploadCache(t) ==
    /\ pc[t] = "u_cache"
    /\ CACHE' = [CACHE EXCEPT ![req[t].report_type] =
                    Append(@, [text_summary |-> req[t].summary,
                               key_metrics |-> req[t].key_metrics])]
    /\ req' = [req EXCEPT ![t].appended =
                  [type \in ReportTypes |->
                      @[type] + Len(CACHE'[type]) - Len(CACHE[type])]]
    /\ Goto(t, "u_embed")
    /\ UNCHANGED <<storeVars, loc, calls, budget, uploaded, embedFailed,
                   _AGENT_LOGS>>

\* embed_texts(summary["text_summary"], tag=report_type.upper()): the call
UploadEmbed(t) ==
    /\ pc[t] = "u_embed"
    /\ EmbedEnter(t, AsList(TRUE, req[t].summary), Upper(req[t].report_type))
    /\ Goto(t, "e_model_chk")
    /\ UNCHANGED <<storeVars, calls, appVars>>

\* an upload that logs the embedding step although embed_texts raised
UploadEmbedFailed_StillLogs(t) ==
    /\ pc[t] = "raised"
    /\ req[t].route = "upload"
    /\ req' = [req EXCEPT ![t] =
                  Stepped([req[t] EXCEPT !.embedded = "raised"],
                          "RAGEmbeddingAgent")]
    /\ log_agent_step("RAGEmbeddingAgent", "Embedding stored")
    /\ embedFailed' = [embedFailed EXCEPT ![req[t].report_type] = @ + 1]
    /\ Goto(t, "u_respond")
    /\ UNCHANGED <<storeVars, loc, calls, budget, uploaded, CACHE>>

\* embed_texts raised: except Exception, the failure is printed
UploadEmbedFailed(t) ==
    /\ pc[t] = "raised"
    /\ req[t].route = "upload"
    /\ req' = [req EXCEPT ![t].embedded = "raised"]
    /\ embedFailed' = [embedFailed EXCEPT ![req[t].report_type] = @ + 1]
    /\ Goto(t, "u_respond")
    /\ UNCHANGED <<storeVars, loc, calls, budget, uploaded, CACHE, _AGENT_LOGS>>

\* embed_texts returned: log_agent_step("RAGEmbeddingAgent", ...)
UploadEmbedded(t) ==
    /\ pc[t] = "returned"
    /\ req[t].route = "upload"
    /\ req' = [req EXCEPT ![t] =
                  Stepped([req[t] EXCEPT !.embedded = "returned"],
                          "RAGEmbeddingAgent")]
    /\ log_agent_step("RAGEmbeddingAgent", "Embedding stored")
    /\ Goto(t, "u_respond")
    /\ UNCHANGED <<storeVars, loc, calls, budget, uploaded, embedFailed, CACHE>>

\* an upload that reports the number cached before its own summary
UploadRespond_Stale(t) ==
    /\ pc[t] = "u_respond"
    /\ Respond(t, [req[t] EXCEPT
                      !.cached_count = Len(CACHE[req[t].report_type]) - 1],
               200)
    /\ uploaded' = [uploaded EXCEPT ![req[t].report_type] = @ + 1]
    /\ UNCHANGED <<storeVars, loc, calls, budget, embedFailed, CACHE,
                   _AGENT_LOGS>>

\* return jsonify({..., "cached_count": len(CACHE[report_type])}), 200
UploadRespond(t) ==
    /\ pc[t] = "u_respond"
    /\ Respond(t, [req[t] EXCEPT
                      !.cached_count = Len(CACHE[req[t].report_type])], 200)
    /\ uploaded' = [uploaded EXCEPT ![req[t].report_type] = @ + 1]
    /\ UNCHANGED <<storeVars, loc, calls, budget, embedFailed, CACHE,
                   _AGENT_LOGS>>

Upload(t) ==
    \/ UploadRejected(t) \/ UploadCall(t) \/ UploadSaveFails(t)
    \/ UploadUnderstand(t) \/ UploadUnderstandFails(t)
    \/ UploadDetect(t) \/ UploadDetectFails(t) \/ UploadCache(t)
    \/ UploadEmbed(t) \/ UploadEmbedFailed(t) \/ UploadEmbedded(t)
    \/ UploadRespond(t)

\* -------------------------------------------------------------- POST /chat

\* if not query: 400
ChatRejected(t) ==
    /\ \E query \in ChatQueries, show_counterfactual \in BOOLEAN :
          /\ query = ""
          /\ Accept(t, [NoRequest EXCEPT
                           !.route = "chat", !.query = query,
                           !.show_counterfactual = show_counterfactual,
                           !.status = 400, !.error = "Query is required"],
                    "responded")
    /\ UNCHANGED <<storeVars, budget, uploaded, embedFailed, CACHE, _AGENT_LOGS>>

\* intent = classify_intent(query); log_agent_step(...)
ChatCall(t) ==
    /\ \E query \in ChatQueries, show_counterfactual \in BOOLEAN :
          /\ query # ""
          /\ Accept(t, Stepped([NoRequest EXCEPT
                                   !.route = "chat", !.query = query,
                                   !.show_counterfactual = show_counterfactual,
                                   !.intent = classify_intent(query)],
                               "IntentClassificationAgent"),
                    "c_retrieve")
          /\ log_agent_step("IntentClassificationAgent",
                            classify_intent(query))
    /\ UNCHANGED <<storeVars, budget, uploaded, embedFailed, CACHE>>

\* the frame of retrieve_context(query) called with k
RetrieveEnter(t, query, k) ==
    Set(t, [NoLocals EXCEPT !.op = "retrieve", !.query = query, !.k = k,
                            !.entry = Len(StoreVectors)])

\* a chat that asks for one document more than the default
ChatRetrieve_OneMore(t) ==
    /\ pc[t] = "c_retrieve"
    /\ RetrieveEnter(t, IntentQuery(req[t].intent, req[t].query),
                     DefaultK + 1)
    /\ Goto(t, "r_index_chk")
    /\ UNCHANGED <<storeVars, calls, appVars>>

\* context = retrieve_context(f"{intent}: {query}"): the call, k left out
ChatRetrieve(t) ==
    /\ pc[t] = "c_retrieve"
    /\ RetrieveEnter(t, IntentQuery(req[t].intent, req[t].query), DefaultK)
    /\ Goto(t, "r_index_chk")
    /\ UNCHANGED <<storeVars, calls, appVars>>

\* retrieve_context returned: log_agent_step("RAGRetrievalAgent", ...)
ChatRetrieved(t) ==
    /\ pc[t] = "returned"
    /\ req[t].route = "chat"
    /\ req' = [req EXCEPT ![t] =
                  Stepped([req[t] EXCEPT !.context = loc[t].ret],
                          "RAGRetrievalAgent")]
    /\ log_agent_step("RAGRetrievalAgent", loc[t].ret)
    /\ Goto(t, "c_root_cause")
    /\ UNCHANGED <<storeVars, loc, calls, budget, uploaded, embedFailed, CACHE>>

\* retrieve_context raised: the handler of /chat, 500
ChatRetrieveFailed(t) ==
    /\ pc[t] = "raised"
    /\ req[t].route = "chat"
    /\ Respond(t, [req[t] EXCEPT !.error = "Chat processing failed"], 500)
    /\ UNCHANGED <<storeVars, loc, calls, budget, uploaded, embedFailed, CACHE,
                   _AGENT_LOGS>>

\* a chat that never simulates the counterfactual
ChatRootCause_SkipsCounterfactual(t) ==
    /\ pc[t] = "c_root_cause"
    /\ req' = [req EXCEPT ![t] = Stepped(req[t], "RootCauseReasoningAgent")]
    /\ log_agent_step("RootCauseReasoningAgent", "explanation")
    /\ Goto(t, "c_actions")
    /\ UNCHANGED <<storeVars, loc, calls, budget, uploaded, embedFailed, CACHE>>

\* explanation = explain_root_cause(...); log_agent_step(...)
ChatRootCause(t) ==
    /\ pc[t] = "c_root_cause"
    /\ req' = [req EXCEPT ![t] = Stepped(req[t], "RootCauseReasoningAgent")]
    /\ log_agent_step("RootCauseReasoningAgent", "explanation")
    /\ Goto(t, IF req[t].show_counterfactual
               THEN "c_counterfactual" ELSE "c_actions")
    /\ UNCHANGED <<storeVars, loc, calls, budget, uploaded, embedFailed, CACHE>>

\* if show_counterfactual: simulate_counterfactual(...); log_agent_step(...)
ChatCounterfactual(t) ==
    /\ pc[t] = "c_counterfactual"
    /\ req' = [req EXCEPT ![t] =
                  Stepped(req[t], "CounterfactualSimulationAgent")]
    /\ log_agent_step("CounterfactualSimulationAgent", "counterfactual")
    /\ Goto(t, "c_actions")
    /\ UNCHANGED <<storeVars, loc, calls, budget, uploaded, embedFailed, CACHE>>

\* actions = recommend_actions(explanation); log_agent_step(...)
ChatActions(t) ==
    /\ pc[t] = "c_actions"
    /\ req' = [req EXCEPT ![t] = Stepped(req[t], "ActionRecommendationAgent")]
    /\ log_agent_step("ActionRecommendationAgent", "actions")
    /\ Goto(t, "c_confidence")
    /\ UNCHANGED <<storeVars, loc, calls, budget, uploaded, embedFailed, CACHE>>

\* confidence = assess_decision_confidence(...); log_agent_step(...); 200
ChatConfidence(t) ==
    /\ pc[t] = "c_confidence"
    /\ Respond(t, Stepped(req[t], "DecisionConfidenceGuardrailAgent"), 200)
    /\ log_agent_step("DecisionConfidenceGuardrailAgent", "confidence")
    /\ UNCHANGED <<storeVars, loc, calls, budget, uploaded, embedFailed, CACHE>>

Chat(t) ==
    \/ ChatRejected(t) \/ ChatCall(t) \/ ChatRetrieve(t) \/ ChatRetrieved(t)
    \/ ChatRetrieveFailed(t) \/ ChatRootCause(t) \/ ChatCounterfactual(t)
    \/ ChatActions(t) \/ ChatConfidence(t)

\* ------------------------------------------------------- the agent logger

\* get_agent_logs(limit): return _AGENT_LOGS[-limit:]
GetAgentLogs(t, limit) ==
    /\ Accept(t, [NoRequest EXCEPT
                     !.route = "get_agent_logs", !.limit = limit,
                     !.seen = _AGENT_LOGS,
                     !.logs = RecentLogs(_AGENT_LOGS, limit),
                     !.status = 200],
              "responded")
    /\ UNCHANGED <<storeVars, budget, uploaded, embedFailed, CACHE, _AGENT_LOGS>>

\* get_agent_logs called with a limit of the caller's choice
GetAgentLogsCall(t) == \E limit \in 0..MaxLimit : GetAgentLogs(t, limit)

\* GET /agent-logs: return jsonify(get_agent_logs())
AgentLogsApi(t) == GetAgentLogs(t, DefaultLimit)

\* POST /clear-logs: clear_agent_logs(), _AGENT_LOGS.clear()
ClearLogsApi(t) ==
    /\ Accept(t, [NoRequest EXCEPT !.route = "clear_agent_logs",
                                   !.status = 200],
              "responded")
    /\ _AGENT_LOGS' = <<>>
    /\ UNCHANGED <<storeVars, budget, uploaded, embedFailed, CACHE>>

AgentLogs(t) == GetAgentLogsCall(t) \/ AgentLogsApi(t) \/ ClearLogsApi(t)

\* --------------------------------------------------------- GET /chart-data

\* the request arrives; the loop over CACHE["authorization"]
ChartCall(t) ==
    /\ Accept(t, [NoRequest EXCEPT
                     !.route = "chart_data",
                     !.cached = [authorization |-> Len(CACHE.authorization),
                                 settlement |-> Len(CACHE.settlement)],
                     !.auth_declines =
                         DataPoints(CACHE.authorization, "declined_txns")],
              "g_settlement")
    /\ UNCHANGED <<storeVars, budget, uploaded, embedFailed, CACHE, _AGENT_LOGS>>

\* the loop over CACHE["settlement"]
ChartSettlement(t) ==
    /\ pc[t] = "g_settlement"
    /\ req' = [req EXCEPT ![t].settlement_delays =
                  DataPoints(CACHE.settlement, "delay_hours")]
    /\ Goto(t, "g_auth_fallback")
    /\ UNCHANGED <<storeVars, loc, calls, budget, uploaded, embedFailed, CACHE,
                   _AGENT_LOGS>>

\* if len(auth_declines) == 0 and len(CACHE["authorization"]) == 0
ChartAuthFallback(t) ==
    /\ pc[t] = "g_auth_fallback"
    /\ req' = [req EXCEPT ![t].auth_declines =
                  IF Len(@) = 0 /\ Len(CACHE.authorization) = 0
                  THEN SampleDeclines ELSE @]
    /\ Goto(t, "g_settlement_fallback")
    /\ UNCHANGED <<storeVars, loc, calls, budget, uploaded, embedFailed, CACHE,
                   _AGENT_LOGS>>

\* a fallback that only asks whether the loop found a data point
ChartSettlementFallback_NoPoints(t) ==
    /\ pc[t] = "g_settlement_fallback"
    /\ Respond(t, [req[t] EXCEPT !.settlement_delays =
                      IF Len(@) = 0 THEN SampleDelays ELSE @], 200)
    /\ UNCHANGED <<storeVars, loc, calls, budget, uploaded, embedFailed, CACHE,
                   _AGENT_LOGS>>

\* if len(settlement_delays) == 0 and len(CACHE["settlement"]) == 0; the
\* response is built and returned
ChartSettlementFallback(t) ==
    /\ pc[t] = "g_settlement_fallback"
    /\ Respond(t, [req[t] EXCEPT !.settlement_delays =
                      IF Len(@) = 0 /\ Len(CACHE.settlement) = 0
                      THEN SampleDelays ELSE @], 200)
    /\ UNCHANGED <<storeVars, loc, calls, budget, uploaded, embedFailed, CACHE,
                   _AGENT_LOGS>>

\* "has_data": len(data_points) > 0
HasData(data_points) == Len(data_points) > 0

ChartData(t) ==
    \/ ChartCall(t) \/ ChartSettlement(t) \/ ChartAuthFallback(t)
    \/ ChartSettlementFallback(t)

\* ------------------------------------------- the agents of /chat, alone

\* the queries the agents are run on: one of each intent
AgentQueries ==
    {"authorization declines", "settlement delay", "network performance",
     "recommend action", "why"}

\* lines 179-229 with the retrieval's result as an input: the intent of the
\* query, and explanation = explain_root_cause(query, context, intent)
AgentsCall(t) ==
    /\ \E query \in AgentQueries, context \in Contexts,
          show_counterfactual \in BOOLEAN, answer \in Answers \cup {NoText} :
          Accept(t, [NoRequest EXCEPT
                        !.route = "agents", !.query = query,
                        !.show_counterfactual = show_counterfactual,
                        !.intent = classify_intent(query),
                        !.context = context,
                        !.explanation =
                            explain_root_cause(query, context,
                                               classify_intent(query),
                                               answer)],
                 IF show_counterfactual THEN "a_counterfactual"
                                        ELSE "a_confidence")
    /\ UNCHANGED <<storeVars, budget, uploaded, embedFailed, CACHE,
                   _AGENT_LOGS>>

\* counterfactual = simulate_counterfactual(intent=intent,
\*                                          root_cause=explanation)
AgentsCounterfactual(t) ==
    /\ pc[t] = "a_counterfactual"
    /\ req' = [req EXCEPT ![t].counterfactual =
                  simulate_counterfactual(req[t].intent,
                                          req[t].explanation)]
    /\ Goto(t, "a_confidence")
    /\ UNCHANGED <<storeVars, loc, calls, budget, uploaded, embedFailed,
                   CACHE, _AGENT_LOGS>>

\* a guardrail that is handed three anomalies of high severity
AgentsConfidence_WithAnomalies(t) ==
    /\ pc[t] = "a_confidence"
    /\ Respond(t, [req[t] EXCEPT !.confidence =
                      assess_decision_confidence(
                          req[t].intent, req[t].explanation,
                          <<"HIGH", "HIGH", "HIGH">>,
                          req[t].counterfactual, NoAccuracy)],
               200)
    /\ UNCHANGED <<storeVars, loc, calls, budget, uploaded, embedFailed,
                   CACHE, _AGENT_LOGS>>

\* confidence = assess_decision_confidence(intent=intent,
\*     root_cause=explanation, anomalies=None,
\*     counterfactual=counterfactual, historical_accuracy=None)
AgentsConfidence(t) ==
    /\ pc[t] = "a_confidence"
    /\ Respond(t, [req[t] EXCEPT !.confidence =
                      assess_decision_confidence(
                          req[t].intent, req[t].explanation, <<>>,
                          req[t].counterfactual, NoAccuracy)],
               200)
    /\ UNCHANGED <<storeVars, loc, calls, budget, uploaded, embedFailed,
                   CACHE, _AGENT_LOGS>>

Agents(t) == AgentsCall(t) \/ AgentsCounterfactual(t) \/ AgentsConfidence(t)

\* ------------------------------------------------------- the application

\* the threaded host serving requests
AppNext ==
    \E t \in Threads :
        Upload(t) \/ Chat(t) \/ AgentLogs(t) \/ ChartData(t)
        \/ EmbedSteps(t) \/ RetrieveSteps(t)

AppSpec == Init /\ [][AppNext]_vars


Next == \E t \in Threads : Embed(t) \/ Retrieve(t)

Spec == Init /\ [][Next]_vars

\* ------------------------------------------------------ other run shapes

\* the same threads with one more call: room for a call made after a race
RaceCalls == MaxCalls + 1
InitRace ==
    /\ embed_model = None
    /\ retrieve_model = None
    /\ modelsBuilt = [embed |-> 0, retrieve |-> 0]
    /\ _index = None
    /\ indexes = <<>>
    /\ _documents = <<>>
    /\ pc = [t \in Threads |-> "idle"]
    /\ loc = [t \in Threads |-> NoLocals]
    /\ calls = 0
    /\ budget = RaceCalls
    /\ CACHE = [authorization |-> <<>>, settlement |-> <<>>]
    /\ _AGENT_LOGS = <<>>
    /\ req = [t \in Threads |-> NoRequest]
    /\ embedFailed = [authorization |-> 0, settlement |-> 0]
    /\ uploaded = [authorization |-> 0, settlement |-> 0]

RaceSpec == InitRace /\ [][Next]_vars

\* one request at a time: a single thread makes call after call
SeqCalls == MaxCalls + 2
InitSeq ==
    /\ embed_model = None
    /\ retrieve_model = None
    /\ modelsBuilt = [embed |-> 0, retrieve |-> 0]
    /\ _index = None
    /\ indexes = <<>>
    /\ _documents = <<>>
    /\ pc = [t \in Threads |-> "idle"]
    /\ loc = [t \in Threads |-> NoLocals]
    /\ calls = 0
    /\ budget = SeqCalls
    /\ CACHE = [authorization |-> <<>>, settlement |-> <<>>]
    /\ _AGENT_LOGS = <<>>
    /\ req = [t \in Threads |-> NoRequest]
    /\ embedFailed = [authorization |-> 0, settlement |-> 0]
    /\ uploaded = [authorization |-> 0, settlement |-> 0]

SeqThread == CHOOSE t \in Threads : TRUE

SeqNext == Embed(SeqThread) \/ Retrieve(SeqThread)

SeqSpec == InitSeq /\ [][SeqNext]_vars

\* one request at a time: a single thread serves upload after upload and
\* chat after chat
AppSeqNext ==
    \/ Upload(SeqThread) \/ Chat(SeqThread)
    \/ EmbedSteps(SeqThread) \/ RetrieveSteps(SeqThread)

AppSeqSpec == InitSeq /\ [][AppSeqNext]_vars

\* the agents behind the retrieval, run on query after query
AgentsNext == Agents(SeqThread)

AgentsSpec == InitSeq /\ [][AgentsNext]_vars

\* ================================================================== claims

IsPrefix(s, u) == Len(s) <= Len(u) /\ \A i \in 1..Len(s) : s[i] = u[i]

Quiescent == \A t \in Threads : Returned(t)

\* C1: whenever no call is in progress, the Document Registry is as long as
\* the Vector Store, and the vector at every position is the embedding of the
\* registry text at that position.
C1_RegistryAligned ==
    Quiescent =>
        /\ Len(_documents) = Len(StoreVectors)
        /\ \A i \in 1..Len(_documents) :
              StoreVectors[i] = EncodeOne(_documents[i])

\* C2: the step of embed_texts that appends to the Document Registry is taken
\* for a non-empty batch only, appends exactly the batch, each text as
\* "[T] " + text, after the entries already there and in input order; no other
\* step of an embed_texts call changes the registry.
C2_EmbedAppendsTagged ==
    [][\A t \in Threads :
          /\ (pc[t] = "e_extend" /\ pc'[t] # pc[t]) =>
                /\ loc[t].texts # <<>>
                /\ Len(_documents') = Len(_documents) + Len(loc[t].texts)
                /\ \A i \in 1..Len(_documents) : _documents'[i] = _documents[i]
                /\ \A i \in 1..Len(loc[t].texts) :
                      _documents'[Len(_documents) + i] =
                          "[" \o loc[t].tag \o "] " \o loc[t].texts[i]
                /\ pc'[t] = "returned"
                /\ loc'[t].extended = loc[t].batch
          /\ (loc[t].op = "embed" /\ pc'[t] # pc[t] /\ pc[t] # "e_extend") =>
                _documents' = _documents
      ]_vars

\* a batch of two different texts was appended, in order
C2_Witness ==
    /\ \E t \in Threads :
          pc[t] = "returned" /\ loc[t].op = "embed" /\ loc[t].extended = 2
    /\ \E i \in 1..Len(_documents) - 1 :
          /\ _documents[i] = "[SETTLEMENT] delay"
          /\ _documents[i + 1] = "[SETTLEMENT] declines"

\* C3: no step removes or moves an entry of the Vector Store or of the
\* Document Registry, and an embed_texts call that returns has grown both by
\* its batch size.
C3_AppendOnly ==
    [][/\ IsPrefix(StoreVectors, StoreVectors')
       /\ IsPrefix(_documents, _documents')
       /\ \A t \in Threads :
             (pc[t] = "e_extend" /\ pc'[t] = "returned") =>
                 /\ loc'[t].added = loc[t].batch
                 /\ loc'[t].extended = loc[t].batch
      ]_vars

\* C4: each module's embedding model and the vector index are constructed at
\* most once, and no index other than the one in use holds vectors.
C4_LoadedOnce ==
    /\ modelsBuilt.embed <= 1
    /\ modelsBuilt.retrieve <= 1
    /\ Len(indexes) <= 1
    /\ \A i \in 1..Len(indexes) : i # _index => indexes[i] = <<>>

\* C5: at most one embed_texts call at a time is between its index.add and
\* its _documents.extend, so no other call appends in between.
C5_WriteAtomic ==
    Cardinality({t \in Threads : pc[t] = "e_extend"}) <= 1

\* C6: the step in which model.encode fails inside embed_texts leaves the call
\* with the exception, changes neither the Vector Store nor the Document
\* Registry, and the call has added no vector and appended no text before it.
C6_EncodeFailureCommitsNothing ==
    [][\A t \in Threads :
          (loc[t].op = "embed" /\ pc'[t] = "raised" /\ pc[t] # "raised"
           /\ loc'[t].ret = "EncodeError") =>
              /\ indexes' = indexes
              /\ _index' = _index
              /\ _documents' = _documents
              /\ loc'[t].added = 0
              /\ loc'[t].extended = 0
      ]_vars

\* model.encode failed on a non-empty batch
C6_Witness ==
    \E t \in Threads :
        /\ pc[t] = "raised" /\ loc[t].op = "embed"
        /\ loc[t].ret = "EncodeError" /\ loc[t].batch > 0

\* C7: the step in which index.add rejects the batch leaves the call with the
\* exception, stores no vector of the batch and appends no text of it.
C7_AddRejectionCommitsNothing ==
    [][\A t \in Threads :
          (loc[t].op = "embed" /\ pc'[t] = "raised" /\ pc[t] # "raised"
           /\ loc'[t].ret = "AddError") =>
              /\ indexes' = indexes
              /\ _index' = _index
              /\ _documents' = _documents
              /\ loc'[t].added = 0
              /\ loc'[t].extended = 0
      ]_vars

\* index.add rejected a batch of two vectors of the wrong width
C7_Witness ==
    \E t \in Threads :
        /\ pc[t] = "raised" /\ loc[t].op = "embed"
        /\ loc[t].ret = "AddError" /\ loc[t].batch = 2

\* C8: no step of a retrieve_context call that was made on a non-empty
\* Vector Store changes the store, the index in use or the registry.
C8_ReadPathFrame ==
    [][\A t \in Threads :
          (loc[t].op = "retrieve" /\ ~Returned(t) /\ pc'[t] # pc[t]
           /\ loc[t].entry > 0) =>
              /\ indexes' = indexes
              /\ _index' = _index
              /\ _documents' = _documents
      ]_vars

\* a retrieve_context call on a non-empty store returned stored text
C8_Witness ==
    \E t \in Threads :
        /\ pc[t] = "returned" /\ loc[t].op = "retrieve"
        /\ loc[t].entry > 0 /\ loc[t].encodes = 1
        /\ loc[t].ret \in {"[AUTHORIZATION] declines", "[SETTLEMENT] delay"}

\* C9: when retrieve_context finds index.ntotal = 0 it returns the sentinel
\* in that very step, has not called the embedding model, and no step of a
\* call that has not seen a vector adds to an index or to the registry.
C9_EmptyStoreSentinel ==
    [][\A t \in Threads :
          /\ (pc[t] = "r_ntotal" /\ pc'[t] # pc[t]
              /\ Ntotal(loc[t].index) = 0) =>
                 /\ pc'[t] = "returned"
                 /\ loc'[t].ret = "No indexed report context available."
                 /\ loc'[t].encodes = 0
          /\ (loc[t].op = "retrieve" /\ pc'[t] # pc[t]
              /\ pc[t] \in {"r_index_chk", "r_index_new", "r_index_ret",
                            "r_ntotal"}) =>
                 /\ _documents' = _documents
                 /\ \A i \in 1..Len(indexes) : indexes'[i] = indexes[i]
                 /\ \A i \in 1..Len(indexes') : i > Len(indexes) =>
                        indexes'[i] = <<>>
      ]_vars

\* a retrieve_context call on the empty store returned the sentinel
C9_Witness ==
    \E t \in Threads :
        /\ pc[t] = "returned" /\ loc[t].op = "retrieve"
        /\ loc[t].ntotal = 0 /\ loc[t].ret = NoContext
        /\ StoreVectors = <<>> /\ _documents = <<>>

TaggedSet == {"[" \o g \o "] " \o x : g \in Tags, x \in Texts}

\* the indices of ix that name a registry entry, in the order of ix
Resolved(ix, n) ==
    LET Ok(i) == 0 <= i /\ i < n IN SelectSeq(ix, Ok)

\* the texts at the indices v, one newline between two of them
Joined(v, documents) ==
    IF Len(v) = 0 THEN ""
    ELSE IF Len(v) = 1 THEN documents[v[1] + 1]
    ELSE IF Len(v) = 2
         THEN documents[v[1] + 1] \o "\n" \o documents[v[2] + 1]
    ELSE documents[v[1] + 1] \o "\n" \o documents[v[2] + 1]
                             \o "\n" \o documents[v[3] + 1]

\* C11: a search with k > N over N >= 1 stored vectors gives the N stored
\* positions nearest first, and retrieve_context returns without failing the
\* N tagged texts of those vectors, in that order and nothing else.
C11_AllWhenKExceeds ==
    [][\A t \in Threads :
          (pc[t] = "r_collect" /\ pc'[t] # pc[t]
           /\ loc[t].searched >= 1 /\ loc[t].k > loc[t].searched) =>
              LET ix == loc[t].indices
                  n == loc[t].searched
                  vecs == indexes[loc[t].index]
                  q == loc[t].embeddings.rows[1]
                  v == Resolved(ix, Len(_documents))
              IN  /\ pc'[t] = "returned"
                  /\ \A i \in 1..n : 0 <= ix[i] /\ ix[i] < n
                  /\ \A i, j \in 1..n : i # j => ix[i] # ix[j]
                  /\ \A i, j \in 1..n :
                        i < j => L2(vecs[ix[i] + 1], q) <= L2(vecs[ix[j] + 1], q)
                  /\ Len(v) = n
                  /\ \A i \in 1..n :
                        /\ v[i] = ix[i]
                        /\ _documents[v[i] + 1] \in TaggedSet
                        /\ EncodeOne(_documents[v[i] + 1]) = vecs[ix[i] + 1]
                  /\ loc'[t].ret = Joined(v, _documents)
      ]_vars

\* C12: a search with k = 1 returns, among the stored vectors at the smallest
\* distance to the query, the one at the lowest position.
C12_TieLowestIndex ==
    \A t \in Threads :
        (pc[t] = "r_collect" /\ loc[t].k = 1 /\ loc[t].searched >= 1) =>
            LET ix == loc[t].indices
                vecs == indexes[loc[t].index]
                q == loc[t].embeddings.rows[1]
            IN  /\ Len(ix) = 1
                /\ 0 <= ix[1] /\ ix[1] < loc[t].searched
                /\ \A j \in 1..loc[t].searched :
                      \/ L2(vecs[j], q) > L2(vecs[ix[1] + 1], q)
                      \/ L2(vecs[j], q) = L2(vecs[ix[1] + 1], q) /\ ix[1] + 1 <= j

\* two identical vectors stored back to back, k = 1: position 0 is returned
C12_Witness ==
    \E t \in Threads :
        /\ pc[t] = "r_collect" /\ loc[t].k = 1 /\ loc[t].searched = 2
        /\ indexes[loc[t].index][1] = indexes[loc[t].index][2]
        /\ loc[t].indices = <<0>>

\* C13: retrieve_context returns the registry texts at the indices the search
\* returned, nearest first, one newline between two texts and nothing else;
\* with k = 1 that is the tagged text of the nearest stored vector.
C13_JoinNearestFirst ==
    [][\A t \in Threads :
          (pc[t] = "r_collect" /\ pc'[t] # pc[t]) =>
              LET ix == loc[t].indices
                  vecs == indexes[loc[t].index]
                  v == Resolved(ix, Len(_documents))
              IN  /\ pc'[t] = "returned"
                  /\ loc'[t].ret = Joined(v, _documents)
                  /\ (loc[t].k = 1 /\ loc[t].searched >= 1) =>
                        /\ loc'[t].ret \in TaggedSet
                        /\ EncodeOne(loc'[t].ret) = vecs[ix[1] + 1]
      ]_vars

\* C15: when the search returned an index outside [0, len(registry)),
\* retrieve_context does not raise; it returns the registry texts at the
\* other indices, in order, joined by newlines (the empty string if none).
C15_OutOfRangeSkipped ==
    [][\A t \in Threads :
          (pc[t] = "r_collect" /\ pc'[t] # pc[t]
           /\ \E i \in 1..Len(loc[t].indices) :
                 loc[t].indices[i] < 0
                 \/ loc[t].indices[i] >= Len(_documents)) =>
              /\ pc'[t] = "returned"
              /\ loc'[t].ret =
                     Joined(Resolved(loc[t].indices, Len(_documents)),
                            _documents)
      ]_vars

\* a call returned the empty string: the only stored vector had no registry
\* entry yet
C15_Witness ==
    \E t \in Threads :
        /\ pc[t] = "returned" /\ loc[t].op = "retrieve"
        /\ loc[t].ntotal >= 1 /\ loc[t].encodes = 1 /\ loc[t].ret = ""

C16_FreshAfterInsert ==
    [][\A t \in Threads :
          (Returned(t) /\ pc'[t] = "r_index_chk"
           /\ \E u \in Threads :
                 /\ pc[u] = "returned" /\ loc[u].op = "embed"
                 /\ loc[u].extended > 0) =>
              loc'[t].entry > 0
      ]_vars

\* ---------------------------------------------------------- the application

Min(a, b) == IF a <= b THEN a ELSE b

\* the last n entries of s
LastN(s, n) == SubSeq(s, Len(s) - n + 1, Len(s))

\* C20: a get_agent_logs(limit) call with limit >= 0 that has answered
\* returned the last min(limit, number of logs) entries of the log as it found
\* it (the entries logged since the last clear, in logging order), and so not
\* more than limit entries.
C20_RecentLast ==
    \A t \in Threads :
        (pc[t] = "responded" /\ req[t].route = "get_agent_logs"
         /\ req[t].limit >= 0) =>
            /\ req[t].logs =
                   LastN(req[t].seen, Min(req[t].limit, Len(req[t].seen)))
            /\ Len(req[t].logs) <= req[t].limit

\* C17: an /upload whose embed_texts call raised still answers 200, and an
\* upload has logged the 'RAGEmbeddingAgent' step only if its embed_texts call
\* returned.
C17_EmbedFailureNonFatal ==
    \A t \in Threads :
        req[t].route = "upload" =>
            /\ (pc[t] = "responded" /\ req[t].embedded = "raised") =>
                   req[t].status = 200
            /\ (\E i \in 1..Len(req[t].steps) :
                   req[t].steps[i] = "RAGEmbeddingAgent") =>
                   req[t].embedded = "returned"

\* an upload has answered 200 after its embed_texts call raised, the earlier
\* steps logged and the embedding step not
C17_Witness ==
    \E t \in Threads :
        /\ pc[t] = "responded" /\ req[t].route = "upload"
        /\ req[t].embedded = "raised" /\ req[t].status = 200
        /\ req[t].steps = <<"ReportUnderstandingAgent",
                            "AnomalyDetectionAgent">>
        /\ Len(CACHE[req[t].report_type]) > 0

\* C18: in an /upload, the index.add of the embedding step makes the Vector
\* Store one vector longer, and the step that ends it makes the Document
\* Registry one entry longer, the new entry being "[AUTHORIZATION] " or
\* "[SETTLEMENT] ", by the upload's report type, followed by the summary.
C18_OneTaggedEntry ==
    [][\A t \in Threads :
          req[t].route = "upload" =>
              /\ (pc[t] = "e_add" /\ pc'[t] = "e_extend") =>
                     Len(StoreVectors') = Len(StoreVectors) + 1
              /\ (pc[t] = "e_extend" /\ pc'[t] = "returned") =>
                     /\ Len(_documents') = Len(_documents) + 1
                     /\ _documents'[Len(_documents')] =
                            (IF req[t].report_type = "authorization"
                             THEN "[AUTHORIZATION] " ELSE "[SETTLEMENT] ")
                            \o req[t].summary
      ]_vars

\* the lists of at most two Document Registry entries
UpToTwo ==
    {<<>>} \cup {<<a>> : a \in TaggedSet}
           \cup {<<a, b>> : a \in TaggedSet, b \in TaggedSet}

\* C19: the retrieve_context call of a /chat request, made without k, runs
\* with k = 2, and the context the request passes on is the empty-store
\* sentence or the join of at most 2 Document Registry entries, however many
\* are stored.
C19_DefaultTwo ==
    \A t \in Threads :
        req[t].route = "chat" =>
            /\ loc[t].op = "retrieve" => loc[t].k = 2
            /\ \/ req[t].context = NoContext
               \/ \E s \in UpToTwo : req[t].context = Join(s)

\* a chat has answered with two entries as its context while three are stored
C19_Witness ==
    \E t \in Threads :
        /\ pc[t] = "responded" /\ req[t].route = "chat"
        /\ req[t].status = 200
        /\ Len(_documents) >= 3 /\ Len(StoreVectors) >= 3
        /\ \E a \in TaggedSet, b \in TaggedSet :
              req[t].context = Join(<<a, b>>)

\* C21: a /chart-data request that arrived when CACHE held a report of a type
\* answers without the sample data points of that type: every data point it
\* gives is a metric of a cached report, and when no metric could be extracted
\* it answers has_data = false with no data points.
C21_SampleOnlyWhenEmpty ==
    \A t \in Threads :
        (pc[t] = "responded" /\ req[t].route = "chart_data") =>
            /\ req[t].cached.authorization > 0 =>
                   /\ req[t].auth_declines # SampleDeclines
                   /\ \A i \in 1..Len(req[t].auth_declines) :
                         \E j \in 1..Len(CACHE.authorization) :
                            req[t].auth_declines[i] =
                               CACHE.authorization[j].key_metrics.declined_txns
                   /\ ~HasData(req[t].auth_declines) =>
                          req[t].auth_declines = <<>>
            /\ req[t].cached.settlement > 0 =>
                   /\ req[t].settlement_delays # SampleDelays
                   /\ \A i \in 1..Len(req[t].settlement_delays) :
                         \E j \in 1..Len(CACHE.settlement) :
                            req[t].settlement_delays[i] =
                               CACHE.settlement[j].key_metrics.delay_hours
                   /\ ~HasData(req[t].settlement_delays) =>
                          req[t].settlement_delays = <<>>

\* a /chart-data request has answered after a settlement report without a
\* delay metric was cached and no authorization report: no settlement data
\* points, and the sample data for authorization
C21_Witness ==
    \E t \in Threads :
        /\ pc[t] = "responded" /\ req[t].route = "chart_data"
        /\ req[t].cached.settlement > 0
        /\ req[t].cached.authorization = 0
        /\ req[t].settlement_delays = <<>>
        /\ ~HasData(req[t].settlement_delays)
        /\ req[t].auth_declines = SampleDeclines

\* C22: the step in which an /upload request answers 400 or 500 is its first
\* step or the one after (understand_report), and these steps, like the step
\* that accepts the request, leave CACHE, the Vector Store and the Document
\* Registry as they are.
C22_ErrorLeavesStores ==
    [][\A t \in Threads :
          /\ (/\ pc'[t] = "responded" /\ req'[t].route = "upload"
              /\ req'[t].status \in {400, 500}
              /\ (pc[t] # "responded" \/ req'[t].id # req[t].id)) =>
                 /\ pc[t] \in {"idle", "responded", "u_understand"}
                 /\ UNCHANGED <<CACHE, _index, indexes, _documents>>
          /\ (/\ req'[t].route = "upload"
              /\ (pc[t] = "u_understand" \/ pc'[t] = "u_understand")
              /\ pc'[t] # pc[t]) =>
                 UNCHANGED <<CACHE, _index, indexes, _documents>>
      ]_vars

\* an upload has answered 500 for a report it could not understand, after
\* another upload was cached and indexed
C22_Witness ==
    \E t \in Threads :
        /\ pc[t] = "responded" /\ req[t].route = "upload"
        /\ req[t].status = 500
        /\ req[t].error = "Failed to understand report"
        /\ Len(CACHE[req[t].report_type]) = 1
        /\ Len(_documents) = 1 /\ Len(StoreVectors) = 1

\* the Document Registry entries tagged with a report type
Tagged(type) ==
    Cardinality({i \in 1..Len(_documents) :
                    \E x \in Texts : _documents[i] = TagText(Upper(type), x)})

\* the uploads of a type that have cached their summary and whose embedding
\* step has neither appended to the registry nor been counted as failed
Embedding(type) ==
    Cardinality({t \in Threads :
                    /\ req[t].route = "upload" /\ req[t].report_type = type
                    /\ pc[t] \in {"u_embed", "e_model_chk", "e_model_new",
                                  "e_index_chk", "e_index_new", "e_index_ret",
                                  "e_encode", "e_add", "e_extend", "raised"}})

\* C23: for each report type the Document Registry never holds more entries
\* tagged with the type than CACHE holds summaries of it, and the difference
\* is the number of uploads of the type whose embedding step failed (plus
\* those still between caching and appending).
C23_RegistryWithinCache ==
    \A type \in ReportTypes :
        /\ Tagged(type) <= Len(CACHE[type])
        /\ Len(CACHE[type]) - Tagged(type) =
               embedFailed[type] + Embedding(type)

\* both uploads of a type are over, one embedded and one failed: two cached
\* summaries, one registry entry
C23_Witness ==
    /\ \A t \in Threads : pc[t] = "responded"
    /\ \E type \in ReportTypes :
          /\ Len(CACHE[type]) = 2 /\ Tagged(type) = 1
          /\ embedFailed[type] = 1

\* C24: an /upload that has answered 200 added exactly one summary to CACHE,
\* under its own report type, and the cached_count it returned is at least
\* one more than the number of uploads of that type that had answered 200
\* when it arrived.
C24_CachedOnce ==
    \A t \in Threads :
        (pc[t] = "responded" /\ req[t].route = "upload"
         /\ req[t].status = 200) =>
            /\ \A type \in ReportTypes :
                  req[t].appended[type] =
                      IF type = req[t].report_type THEN 1 ELSE 0
            /\ req[t].cached_count >= req[t].before + 1
            /\ req[t].cached_count <= Len(CACHE[req[t].report_type])

\* an upload has answered 200 with cached_count 2 after another upload of its
\* type had answered 200
C24_Witness ==
    \E t \in Threads :
        /\ pc[t] = "responded" /\ req[t].route = "upload"
        /\ req[t].status = 200
        /\ req[t].before = 1 /\ req[t].cached_count = 2
        /\ req[t].appended[req[t].report_type] = 1

\* the agents a /chat request logs, in order
ChatOrder(show_counterfactual) ==
    <<"IntentClassificationAgent", "RAGRetrievalAgent",
      "RootCauseReasoningAgent">>
    \o (IF show_counterfactual
        THEN <<"CounterfactualSimulationAgent">> ELSE <<>>)
    \o <<"ActionRecommendationAgent", "DecisionConfidenceGuardrailAgent">>

\* C25: every step never reorders _AGENT_LOGS (it appends, clears or leaves
\* it), and a step in which a /chat request logs appends its entry last in
\* _AGENT_LOGS, the entry being the next agent of the order Intent, Retrieval,
\* RootCause, Counterfactual (iff show_counterfactual), Action, Confidence;
\* the request that answers 200 has logged the whole order.
C25_ChatLogOrder ==
    [][/\ (IsPrefix(_AGENT_LOGS, _AGENT_LOGS') \/ _AGENT_LOGS' = <<>>)
       /\ \A t \in Threads :
             /\ (/\ req'[t].route = "chat" /\ pc'[t] # pc[t]
                 /\ req'[t].steps # <<>>
                 /\ (Idle(t) \/ req'[t].steps # req[t].steps)) =>
                    /\ IsPrefix(req'[t].steps,
                                ChatOrder(req'[t].show_counterfactual))
                    /\ Len(req'[t].steps) =
                           (IF Idle(t) THEN 0 ELSE Len(req[t].steps)) + 1
                    /\ Len(_AGENT_LOGS') = Len(_AGENT_LOGS) + 1
                    /\ _AGENT_LOGS'[Len(_AGENT_LOGS')].agent =
                           req'[t].steps[Len(req'[t].steps)]
             /\ (/\ req'[t].route = "chat" /\ pc'[t] = "responded"
                 /\ req'[t].status = 200) =>
                    req'[t].steps = ChatOrder(req'[t].show_counterfactual)
      ]_vars

\* two chats, one with and one without the counterfactual, have answered 200
\* and their entries are interleaved in _AGENT_LOGS
C25_Witness ==
    /\ \A t \in Threads :
          /\ pc[t] = "responded" /\ req[t].route = "chat"
          /\ req[t].status = 200
    /\ \E t \in Threads, u \in Threads :
          req[t].show_counterfactual /\ ~req[u].show_counterfactual
    /\ Len(_AGENT_LOGS) = 11
    /\ _AGENT_LOGS[2].agent = "IntentClassificationAgent"
    /\ _AGENT_LOGS[10].agent = "DecisionConfidenceGuardrailAgent"

\* C26: the step in which a /chat request answers 400 is its first, its query
\* is empty, it appends no agent-log entry and makes no retrieve_context call;
\* and no step of any /chat request changes CACHE, the contents of the Vector
\* Store or the Document Registry.
C26_ChatFrame ==
    [][\A t \in Threads :
          /\ (/\ pc'[t] = "responded" /\ req'[t].route = "chat"
              /\ req'[t].status = 400 /\ req'[t].id # req[t].id) =>
                 /\ Idle(t)
                 /\ req'[t].query = ""
                 /\ req'[t].steps = <<>>
                 /\ _AGENT_LOGS' = _AGENT_LOGS
                 /\ loc'[t].op = "none"
          /\ (req'[t].route = "chat"
              /\ (pc'[t] # pc[t] \/ req'[t].id # req[t].id)) =>
                 /\ CACHE' = CACHE
                 /\ StoreVectors' = StoreVectors
                 /\ _documents' = _documents
      ]_vars

\* C27: the guardrail as /chat calls it, with no anomalies and no historical
\* accuracy, gives every query, context and explanation a confidence score of
\* at most 73 hundredths, a confidence_level other than "HIGH", and a
\* risk_flags list that holds "Limited anomaly evidence".
C27_ConfidenceCapped ==
    \A t \in Threads :
        (pc[t] = "responded" /\ req[t].route = "agents") =>
            /\ req[t].confidence.confidence_score <= 73
            /\ req[t].confidence.confidence_level # "HIGH"
            /\ \E i \in 1..Len(req[t].confidence.risk_flags) :
                  req[t].confidence.risk_flags[i] = "Limited anomaly evidence"

\* the guardrail has answered with the largest score it can give
C27_Witness ==
    \E t \in Threads :
        /\ pc[t] = "responded" /\ req[t].route = "agents"
        /\ req[t].confidence.confidence_score = 73
        /\ req[t].confidence.confidence_level = "MEDIUM-HIGH"

====
